---- MODULE Spec2Model ----
(***************************************************************************)
(* Model of the blitzar C bindings (cbindings/proofs_gpu_api.h): generator *)
(* derivation, Pedersen commitments and the inner-product argument.        *)
(*                                                                         *)
(* The ristretto255 group is modelled as the free module over the scalar   *)
(* field with one basis vector per generator index: a point is the tuple   *)
(* of its coefficients, so two points are equal exactly when they are      *)
(* equal for every choice of independent generators.  The scalar field is  *)
(* a prime field of small order.                                           *)
(***************************************************************************)
EXTENDS Integers, Sequences, FiniteSets, TLC

\* ---------------------------------------------------------------- bounds
MaxN == 3
MaxOffset == 1
MaxSeqs == 2
MaxSeqLen == 2
MaxPrecomputed == 2

\* order of the scalar field (sxt_scalar), scaled down to a small prime
ScalarOrder == 7

Scalars == 0 .. (ScalarOrder - 1)
\* values the a_vector / b_vector inputs are drawn from
AValues == {0, 3}
BValues == {1, 2}
\* starting transcript states
StartTranscripts == {0, 1}

RECURSIVE Pow(_, _)
Pow(x, e) == IF e = 0 THEN 1 ELSE x * Pow(x, e - 1)

\* ceil(log2(n)) for n >= 1
RECURSIVE CeilLog2From(_, _)
CeilLog2From(n, k) == IF Pow(2, k) >= n THEN k ELSE CeilLog2From(n, k + 1)
\* faulty variant: floor(log2(n)) in place of ceil(log2(n))
CeilLog2_floor(len) == IF len <= 1 THEN 0 ELSE CeilLog2From(len + 1, 0) - 1
CeilLog2(len) == CeilLog2From(len, 0)

\* np = 1ull << ceil(log2(n))
PaddedLen(n) == Pow(2, CeilLog2(n))

\* number of generator indices the model needs: offset + np + 1 (for Q)
NumGen == MaxOffset + (IF MaxSeqLen > PaddedLen(MaxN) THEN MaxSeqLen ELSE PaddedLen(MaxN)) + 1

\* ---------------------------------------------------------- scalar field
FAdd(x, y) == (x + y) % ScalarOrder
FMul(x, y) == (x * y) % ScalarOrder
FInv(x) == IF x = 0 THEN 0 ELSE CHOOSE y \in 1 .. (ScalarOrder - 1) : (x * y) % ScalarOrder = 1

RECURSIVE SumSeq(_)
SumSeq(s) == IF s = <<>> THEN 0 ELSE Head(s) + SumSeq(Tail(s))

\* field inner product <x, y>
InnerProduct(x, y) == SumSeq([i \in 1 .. Len(x) |-> x[i] * y[i]]) % ScalarOrder

\* ----------------------------------------------------------------- group
ristretto_identity == [k \in 1 .. NumGen |-> 0]
PAdd(p, q) == [k \in 1 .. NumGen |-> (p[k] + q[k]) % ScalarOrder]
PMul(s, p) == [k \in 1 .. NumGen |-> (s * p[k]) % ScalarOrder]

\* multi-scalar multiplication <x, G> = sum x_m * G_m
MSM(x, G) ==
  [k \in 1 .. NumGen |-> SumSeq([i \in 1 .. Len(x) |-> x[i] * G[i][k]]) % ScalarOrder]

\* 32-byte wire form of a point and back
Compress(p) == SumSeq([k \in 1 .. NumGen |-> p[k] * Pow(ScalarOrder, k - 1)])
Decompress(c) == [k \in 1 .. NumGen |-> (c \div Pow(ScalarOrder, k - 1)) % ScalarOrder]

\* g: uint64_t -> ristretto255, the pre-specified generator of an index
generate_random_ristretto(index) == [k \in 1 .. NumGen |-> IF k = index + 1 THEN 1 ELSE 0]

\* sxt_get_generators(generators, offset, num): generators[i] = g(i + offset)
GetGenerators(offset, num) == [i \in 1 .. num |-> generate_random_ristretto(i - 1 + offset)]

\* ------------------------------------------------------------ transcript
LabelCode(label) == CASE label = "L" -> 11 [] label = "R" -> 23 [] label = "x" -> 37

\* transcript.append(label, bytes)
TAppend(t, label, msg) == (t * 5 + LabelCode(label) + 3 * msg) % 251

\* transcript.challenge_value(label): the challenge and the transcript after it
TChallenge(t, label) ==
  [u |-> 1 + ((t + LabelCode(label)) % (ScalarOrder - 1)),
   t |-> (t * 5 + LabelCode(label) + 1) % 251]

\* ------------------------------------------------------------ variables
VARIABLES
  \* --- commitment calls
  num_sequences,     \* argument num_sequences of both commitment calls
  descriptors,       \* the sequence descriptors
  descriptors_null,  \* TRUE when the descriptors pointer is null
  commitments_null,  \* TRUE when the commitments pointer is null
  offset_generators, \* argument offset_generators
  cm_pc,             \* sxt_compute_pedersen_commitments: "idle" | "returned" | "abort"
  commitments,       \* its output array (compressed points; -1 = not written)
  derived,           \* number of generators it derived
  gg_pc,             \* sxt_get_generators: "idle" | "returned"
  generators,        \* the array sxt_get_generators filled
  cg_pc,             \* ..._with_generators: "idle" | "returned" | "abort"
  commitments_g,     \* its output array (compressed points; -1 = not written)
  \* --- generator calls
  num_precomputed_generators, \* sxt_config.num_precomputed_generators
  precomputed,       \* partial sums g[0] + ... + g[i-1] kept since sxt_init, i = 0 ..
  oc_n,              \* argument n of the last sxt_get_one_commit call (-1 = none)
  oc_ret,            \* its return code (-1 = none)
  one_commit,        \* the point it wrote (<<>> = none)
  gen_args,          \* <<offset, num>> of the last sxt_get_generators call
  gen_ret,           \* its return code
  gen_out            \* the array it filled (<<>> = none)

commit_vars == <<num_sequences, descriptors, descriptors_null, commitments_null,
                 offset_generators, cm_pc, commitments, derived, gg_pc, generators,
                 cg_pc, commitments_g>>
gen_vars == <<num_precomputed_generators, precomputed, oc_n, oc_ret, one_commit,
              gen_args, gen_ret, gen_out>>

\* ===================================================== inner-product proof
VARIABLES
  n,                 \* argument n of both calls
  generators_offset, \* argument generators_offset of both calls
  a_vector,          \* prover input, length n
  b_vector,          \* prover and verifier input, length n
  t0,                \* transcript state the session starts from
  null_arg,          \* TRUE when a required pointer of the prove call is null
  p_pc,              \* "idle" | "round" | "done" | "abort"
  a, b, G,           \* the prover's working vectors
  p_n,               \* their current length
  j,                 \* round index of the next round
  l_vector, r_vector,\* proof output arrays (compressed points; -1 = not written)
  ap_value,          \* proof output scalar (-1 = not written)
  transcript,        \* the prover's transcript
  p_ops,             \* history: transcript operations the prover applied
  u_hist,            \* history: challenge of each completed prover round
  G_hist,            \* history: the prover's G after each completed round
  v_pc,              \* "idle" | "round" | "done" | "abort"
  v_null,            \* TRUE when a required pointer of the verify call is null
  product, a_commit, \* verifier inputs
  v_l, v_r, v_ap,    \* proof handed to the verifier
  v_b, v_G, v_n, v_j,\* the verifier's working vectors, length and round index
  v_acc,             \* sum of u_j^2 * L_j + u_j^-2 * R_j over the rounds done
  v_transcript,      \* the verifier's transcript
  v_ops,             \* history: transcript operations the verifier applied
  v_u_hist,          \* history: challenge of each completed verifier round
  v_G_hist,          \* history: the verifier's G after each completed round
  result             \* return value of sxt_verify_inner_product (-1 = none)

ipa_vars == <<n, generators_offset, a_vector, b_vector, t0, null_arg, p_pc, a, b, G,
              p_n, j, l_vector, r_vector, ap_value, transcript, p_ops, u_hist, G_hist,
              v_pc, v_null, product, a_commit, v_l, v_r, v_ap, v_b, v_G, v_n, v_j,
              v_acc, v_transcript, v_ops, v_u_hist, v_G_hist, result>>

\* faulty variant: the padding is not zero
Pad_ones(x, np) == [i \in 1 .. np |-> IF i <= Len(x) THEN x[i] ELSE 1]
\* a or b padded with zeros until its length is a power of 2
Pad(x, np) == [i \in 1 .. np |-> IF i <= Len(x) THEN x[i] ELSE 0]

\* Q = G[np], the generator following the np generators of G
PointQ(offset, len) == generate_random_ristretto(offset + PaddedLen(len))

Lo(x) == SubSeq(x, 1, Len(x) \div 2)
Hi(x) == SubSeq(x, Len(x) \div 2 + 1, Len(x))

\* faulty variant: the cross term of L taken with b_lo
LValue_wrongHalf(av, bv, Gv, Q) ==
  PAdd(MSM(Lo(av), Hi(Gv)), PMul(InnerProduct(Lo(av), Lo(bv)), Q))
\* l_vector[j] = <a_lo, G_hi> + <a_lo, b_hi> * Q
LValue(av, bv, Gv, Q) == PAdd(MSM(Lo(av), Hi(Gv)), PMul(InnerProduct(Lo(av), Hi(bv)), Q))

\* r_vector[j] = <a_hi, G_lo> + <a_hi, b_lo> * Q
RValue(av, bv, Gv, Q) == PAdd(MSM(Hi(av), Lo(Gv)), PMul(InnerProduct(Hi(av), Lo(bv)), Q))

\* faulty variant: u and u^-1 exchanged in the fold of a
FoldA_swapped(av, u) ==
  LET h == Len(av) \div 2
      ui == FInv(u)
  IN  [i \in 1 .. h |-> FAdd(FMul(av[i], ui), FMul(u, av[h + i]))]
\* a = a_lo * u + (u^-1) * a_hi
FoldA(av, u) ==
  LET h == Len(av) \div 2
      ui == FInv(u)
  IN  [i \in 1 .. h |-> FAdd(FMul(av[i], u), FMul(ui, av[h + i]))]

\* b = b_lo * (u^-1) + u * b_hi
FoldB(bv, u) ==
  LET h == Len(bv) \div 2
      ui == FInv(u)
  IN  [i \in 1 .. h |-> FAdd(FMul(bv[i], ui), FMul(u, bv[h + i]))]

\* faulty variant: u and u^-1 exchanged in the fold of G
FoldG_swapped(Gv, u) ==
  LET h == Len(Gv) \div 2
      ui == FInv(u)
  IN  [i \in 1 .. h |-> PAdd(PMul(u, Gv[i]), PMul(ui, Gv[h + i]))]
\* G = G_lo * (u^-1) + u * G_hi
FoldG(Gv, u) ==
  LET h == Len(Gv) \div 2
      ui == FInv(u)
  IN  [i \in 1 .. h |-> PAdd(PMul(ui, Gv[i]), PMul(u, Gv[h + i]))]

\* a transcript together with the history of the operations applied to it
TrAppend(tr, label, msg) ==
  [t |-> TAppend(tr.t, label, msg), ops |-> Append(tr.ops, <<"append", label, msg>>)]
TrChallenge(tr, label) ==
  [u |-> TChallenge(tr.t, label).u, t |-> TChallenge(tr.t, label).t,
   ops |-> Append(tr.ops, <<"challenge", label>>)]

\* faulty variant: R appended before L
RoundTranscript_RbeforeL(tr, Lc, Rc) ==
  TrChallenge(TrAppend(TrAppend(tr, "R", Rc), "L", Lc), "x")
\* the transcript operations of one round:
\*   transcript.append("L", l_vector[j]); transcript.append("R", r_vector[j]);
\*   u[j] = transcript.challenge_value("x")
RoundTranscript(tr, Lc, Rc) == TrChallenge(TrAppend(TrAppend(tr, "L", Lc), "R", Rc), "x")

\* the prover's state on entry: G, the padded a and b, k = ceil(log2(n)) rounds ahead
ProveEntry(len, offset, av, bv, t) ==
  [a |-> Pad(av, PaddedLen(len)), b |-> Pad(bv, PaddedLen(len)),
   G |-> GetGenerators(offset, PaddedLen(len)), n |-> PaddedLen(len),
   j |-> CeilLog2(len) - 1,
   l |-> [i \in 1 .. CeilLog2(len) |-> -1], r |-> [i \in 1 .. CeilLog2(len) |-> -1],
   t |-> t, ops |-> <<>>, us |-> <<>>, Gs |-> <<>>]

\* round j of the prover
ProveRoundOf(st, Q) ==
  LET L == LValue(st.a, st.b, st.G, Q)
      R == RValue(st.a, st.b, st.G, Q)
      c == RoundTranscript([t |-> st.t, ops |-> st.ops], Compress(L), Compress(R))
  IN  [a |-> FoldA(st.a, c.u), b |-> FoldB(st.b, c.u), G |-> FoldG(st.G, c.u),
       n |-> st.n \div 2, j |-> st.j - 1,
       l |-> [st.l EXCEPT ![st.j + 1] = Compress(L)],
       r |-> [st.r EXCEPT ![st.j + 1] = Compress(R)],
       t |-> c.t, ops |-> c.ops,
       us |-> Append(st.us, c.u), Gs |-> Append(st.Gs, FoldG(st.G, c.u))]

\* all the rounds that remain, j down to 0
RECURSIVE ProveRounds(_, _)
ProveRounds(st, Q) == IF st.j < 0 THEN st ELSE ProveRounds(ProveRoundOf(st, Q), Q)

ProverState ==
  [a |-> a, b |-> b, G |-> G, n |-> p_n, j |-> j, l |-> l_vector, r |-> r_vector,
   t |-> transcript, ops |-> p_ops, us |-> u_hist, Gs |-> G_hist]

SetProver(st) ==
  /\ a' = st.a /\ b' = st.b /\ G' = st.G /\ p_n' = st.n /\ j' = st.j
  /\ l_vector' = st.l /\ r_vector' = st.r /\ transcript' = st.t
  /\ p_ops' = st.ops /\ u_hist' = st.us /\ G_hist' = st.Gs

verifier_vars == <<v_pc, v_null, product, a_commit, v_l, v_r, v_ap, v_b, v_G, v_n, v_j,
                   v_acc, v_transcript, v_ops, v_u_hist, v_G_hist, result>>
input_vars == <<n, generators_offset, a_vector, b_vector, t0, null_arg>>
prover_vars == <<a, b, G, p_n, j, l_vector, r_vector, transcript, p_ops, u_hist, G_hist>>

\* faulty variant: n = 0 is taken as a proof of zero rounds
ProveCall_zeroAllowed ==
  /\ p_pc = "idle"
  /\ IF null_arg
       THEN p_pc' = "abort" /\ UNCHANGED prover_vars
       ELSE /\ p_pc' = "round"
            /\ SetProver(ProveEntry(n, generators_offset, a_vector, b_vector, t0))
  /\ UNCHANGED <<commit_vars, gen_vars, input_vars, ap_value, verifier_vars>>
\* sxt_prove_inner_product is entered: abort on a violated precondition
ProveCall ==
  /\ p_pc = "idle"
  /\ IF null_arg \/ n = 0
       THEN p_pc' = "abort" /\ UNCHANGED prover_vars
       ELSE /\ p_pc' = "round"
            /\ SetProver(ProveEntry(n, generators_offset, a_vector, b_vector, t0))
  /\ UNCHANGED <<commit_vars, gen_vars, input_vars, ap_value, verifier_vars>>

ProveRound ==
  /\ p_pc = "round" /\ j >= 0
  /\ SetProver(ProveRoundOf(ProverState, PointQ(generators_offset, n)))
  /\ UNCHANGED <<commit_vars, gen_vars, input_vars, p_pc, ap_value, verifier_vars>>

\* after the last round the prover sends ap_value = a[0]
ProveReturn ==
  /\ p_pc = "round" /\ j < 0
  /\ ap_value' = a[1]
  /\ p_pc' = "done"
  /\ UNCHANGED <<commit_vars, gen_vars, input_vars, prover_vars, verifier_vars>>

\* ------------------------------------------------------------- verifier
\* the verifier's state on entry: G and the padded b, no round done yet
VerifyEntry(len, offset, bv, t) ==
  [b |-> Pad(bv, PaddedLen(len)), G |-> GetGenerators(offset, PaddedLen(len)),
   n |-> PaddedLen(len), j |-> CeilLog2(len) - 1, acc |-> ristretto_identity,
   t |-> t, ops |-> <<>>, us |-> <<>>, Gs |-> <<>>]

\* round j of the verifier: replay the transcript with the supplied L_j, R_j and fold
VerifyRoundOf(st, lv, rv) ==
  LET c == RoundTranscript([t |-> st.t, ops |-> st.ops], lv[st.j + 1], rv[st.j + 1])
      u2 == FMul(c.u, c.u)
      ui2 == FMul(FInv(c.u), FInv(c.u))
  IN  [b |-> FoldB(st.b, c.u), G |-> FoldG(st.G, c.u), n |-> st.n \div 2, j |-> st.j - 1,
       acc |-> PAdd(st.acc, PAdd(PMul(u2, Decompress(lv[st.j + 1])),
                                 PMul(ui2, Decompress(rv[st.j + 1])))),
       t |-> c.t, ops |-> c.ops,
       us |-> Append(st.us, c.u), Gs |-> Append(st.Gs, FoldG(st.G, c.u))]

\* the final check: a_commit + product * Q + sum(u_j^2 L_j + u_j^-2 R_j)
\*                  = ap * G_final + (ap * b_final) * Q
Accepts(commit, prod, acc, ap, Gfinal, bfinal, Q) ==
  PAdd(PAdd(commit, PMul(prod, Q)), acc) = PAdd(PMul(ap, Gfinal), PMul(FMul(ap, bfinal), Q))

VerifierState ==
  [b |-> v_b, G |-> v_G, n |-> v_n, j |-> v_j, acc |-> v_acc, t |-> v_transcript,
   ops |-> v_ops, us |-> v_u_hist, Gs |-> v_G_hist]

SetVerifier(st) ==
  /\ v_b' = st.b /\ v_G' = st.G /\ v_n' = st.n /\ v_j' = st.j /\ v_acc' = st.acc
  /\ v_transcript' = st.t /\ v_ops' = st.ops /\ v_u_hist' = st.us /\ v_G_hist' = st.Gs

verifier_work == <<v_b, v_G, v_n, v_j, v_acc, v_transcript, v_ops, v_u_hist, v_G_hist>>
verifier_args == <<v_null, product, a_commit, v_l, v_r, v_ap>>

\* a compressed point changed into another one
Tamper(c) == Compress(PAdd(Decompress(c), generate_random_ristretto(0)))

\* the arguments a caller may hand to the verifier after a proof was made: the
\* prover's proof, or that proof with one of product, ap_value, an L_j or an R_j
\* changed, or a null pointer in place of a required one
ProofArgs ==
  LET honest == [product |-> InnerProduct(a_vector, b_vector), ap |-> ap_value,
                 l |-> l_vector, r |-> r_vector, isnull |-> FALSE]
  IN  {[honest EXCEPT !.product = p] : p \in Scalars}
      \cup {[honest EXCEPT !.ap = FAdd(@, 1)]}
      \cup {[honest EXCEPT !.l[i] = Tamper(@)] : i \in 1 .. Len(l_vector)}
      \cup {[honest EXCEPT !.r[i] = Tamper(@)] : i \in 1 .. Len(r_vector)}
      \cup {[honest EXCEPT !.isnull = TRUE]}

\* the arguments of a verify call made with the inputs the prover aborted on
BadArgs ==
  {[product |-> 0, ap |-> 0, l |-> <<>>, r |-> <<>>, isnull |-> null_arg]}

\* sxt_verify_inner_product is entered: abort on a violated precondition
VerifyCall ==
  /\ v_pc = "idle" /\ p_pc \in {"done", "abort"}
  /\ \E args \in (IF p_pc = "done" THEN ProofArgs ELSE BadArgs) :
       /\ v_null' = args.isnull
       /\ product' = args.product
       /\ v_ap' = args.ap
       /\ v_l' = args.l
       /\ v_r' = args.r
       /\ a_commit' = MSM(a_vector, GetGenerators(generators_offset, n))
       /\ IF args.isnull \/ n = 0
            THEN v_pc' = "abort" /\ UNCHANGED verifier_work
            ELSE /\ v_pc' = "round"
                 /\ SetVerifier(VerifyEntry(n, generators_offset, b_vector, t0))
  /\ UNCHANGED <<commit_vars, gen_vars, input_vars, p_pc, prover_vars, ap_value, result>>

VerifyRound ==
  /\ v_pc = "round" /\ v_j >= 0
  /\ SetVerifier(VerifyRoundOf(VerifierState, v_l, v_r))
  /\ UNCHANGED <<commit_vars, gen_vars, input_vars, p_pc, prover_vars, ap_value, result, v_pc, verifier_args>>

\* return 1 in case the proof can be verified; otherwise, return 0
VerifyReturn ==
  /\ v_pc = "round" /\ v_j < 0
  /\ result' = IF Accepts(a_commit, product, v_acc, v_ap, v_G[1], v_b[1],
                          PointQ(generators_offset, n)) THEN 1 ELSE 0
  /\ v_pc' = "done"
  /\ UNCHANGED <<commit_vars, gen_vars, input_vars, p_pc, prover_vars, ap_value, verifier_work, verifier_args>>

InputVectors(len, vals) == [1 .. len -> vals]

InitIPA ==
  /\ n \in 0 .. MaxN
  /\ generators_offset \in 0 .. MaxOffset
  /\ a_vector \in InputVectors(n, AValues)
  /\ b_vector \in InputVectors(n, BValues)
  /\ t0 \in StartTranscripts
  /\ null_arg \in BOOLEAN
  /\ p_pc = "idle" /\ v_pc = "idle"
  /\ a = <<>> /\ b = <<>> /\ G = <<>> /\ p_n = 0 /\ j = -1
  /\ l_vector = <<>> /\ r_vector = <<>> /\ ap_value = -1
  /\ transcript = t0 /\ p_ops = <<>> /\ u_hist = <<>> /\ G_hist = <<>>
  /\ v_null = FALSE /\ product = 0 /\ a_commit = ristretto_identity
  /\ v_l = <<>> /\ v_r = <<>> /\ v_ap = -1
  /\ v_b = <<>> /\ v_G = <<>> /\ v_n = 0 /\ v_j = -1 /\ v_acc = ristretto_identity
  /\ v_transcript = t0 /\ v_ops = <<>> /\ v_u_hist = <<>> /\ v_G_hist = <<>>
  /\ result = -1

NextIPA ==
  \/ ProveCall
  \/ ProveRound
  \/ ProveReturn
  \/ VerifyCall
  \/ VerifyRound
  \/ VerifyReturn



IdleIPA ==
  /\ n = 0 /\ generators_offset = 0 /\ a_vector = <<>> /\ b_vector = <<>> /\ t0 = 0
  /\ null_arg = FALSE /\ p_pc = "idle" /\ v_pc = "idle"
  /\ a = <<>> /\ b = <<>> /\ G = <<>> /\ p_n = 0 /\ j = -1
  /\ l_vector = <<>> /\ r_vector = <<>> /\ ap_value = -1
  /\ transcript = 0 /\ p_ops = <<>> /\ u_hist = <<>> /\ G_hist = <<>>
  /\ v_null = FALSE /\ product = 0 /\ a_commit = ristretto_identity
  /\ v_l = <<>> /\ v_r = <<>> /\ v_ap = -1
  /\ v_b = <<>> /\ v_G = <<>> /\ v_n = 0 /\ v_j = -1 /\ v_acc = ristretto_identity
  /\ v_transcript = 0 /\ v_ops = <<>> /\ v_u_hist = <<>> /\ v_G_hist = <<>>
  /\ result = -1

\* ====================================================== sequence decoder
RECURSIVE PowMod(_, _)
PowMod(x, e) == IF e = 0 THEN 1 ELSE (x * PowMod(x, e - 1)) % ScalarOrder

\* element row (1-based) of a sequence: element_nbytes bytes of the data buffer
ElementAt(d, row) ==
  SubSeq(d.data, (row - 1) * d.element_nbytes + 1, row * d.element_nbytes)

\* the little-endian bytes of one element as a scalar; a signed element with its top
\* bit set is the two's complement of a negative number, mapped to order - |value|
RECURSIVE LittleEndian(_, _)
LittleEndian(bytes, i) ==
  IF i > Len(bytes) THEN 0
  ELSE (bytes[i] + 256 * LittleEndian(bytes, i + 1)) % ScalarOrder

DecodeElement(bytes, is_signed) ==
  LET nb == Len(bytes)
      mag == LittleEndian(bytes, 1)
  IN  IF is_signed # 0 /\ nb > 0 /\ bytes[nb] >= 128
        THEN (mag + ScalarOrder - PowMod(256, nb)) % ScalarOrder
        ELSE mag

DecodeSequence(d) == [row \in 1 .. d.n |-> DecodeElement(ElementAt(d, row), d.is_signed)]

\* ==================================================== commitment engine
RECURSIVE MaxRowsFrom(_, _)
MaxRowsFrom(descs, i) ==
  IF i > Len(descs) THEN 0
  ELSE LET rest == MaxRowsFrom(descs, i + 1)
       IN  IF descs[i].n > rest THEN descs[i].n ELSE rest
\* max_num_rows = the maximum between all n_i
MaxRows(descs) == MaxRowsFrom(descs, 1)

\* faulty variant: the offset is ignored
CommitGenerators_noOffset(offset, num) == GetGenerators(0, num)
\* the generators sxt_compute_pedersen_commitments pairs with rows 0, 1, ...:
\* g_{offset_generators + j}
CommitGenerators(offset, num) == GetGenerators(offset, num)

\* the batched multi-scalar multiplication: generator row after row, each row added
\* into every sequence that has it
RECURSIVE CommitRows(_, _, _, _, _)
CommitRows(acc, descs, gens, row, rows) ==
  IF row > rows THEN acc
  ELSE CommitRows(
         [i \in 1 .. Len(descs) |->
            IF row <= descs[i].n
              THEN PAdd(acc[i], PMul(DecodeElement(ElementAt(descs[i], row),
                                                   descs[i].is_signed), gens[row]))
              ELSE acc[i]],
         descs, gens, row + 1, rows)

\* res[i] = Prod_j g_j ^ a_ij, compressed
PedersenCommitments(descs, gens) ==
  LET sums == CommitRows([i \in 1 .. Len(descs) |-> ristretto_identity], descs, gens,
                         1, MaxRows(descs))
  IN  [i \in 1 .. Len(descs) |-> Compress(sums[i])]

\* faulty variant: element_nbytes > 32 is not checked
MustAbort_noUpperBound(descs, dnull, cnull) ==
  \/ dnull
  \/ cnull
  \/ \E i \in 1 .. Len(descs) :
       \/ descs[i].element_nbytes = 0
       \/ descs[i].n > 0 /\ descs[i].data_null
\* the documented causes of abnormal termination
MustAbort(descs, dnull, cnull) ==
  \/ dnull
  \/ cnull
  \/ \E i \in 1 .. Len(descs) :
       \/ descs[i].element_nbytes = 0
       \/ descs[i].element_nbytes > 32
       \/ descs[i].n > 0 /\ descs[i].data_null

\* a descriptor that breaks the struct's rules without being a documented abort:
\* element_nbytes not a power of 2, or signed with element_nbytes > 16
OutsideContract(d) ==
  \/ d.element_nbytes \notin {1, 2, 4, 8, 16, 32}
  \/ d.is_signed # 0 /\ d.element_nbytes > 16

\* how a call on these arguments can end
CommitOutcomes(descs, dnull, cnull) ==
  IF MustAbort(descs, dnull, cnull) THEN {"abort"}
  ELSE IF \E i \in 1 .. Len(descs) : OutsideContract(descs[i]) THEN {"abort", "returned"}
  ELSE {"returned"}

gen_call_vars == <<gg_pc, generators>>
commit_args == <<num_sequences, descriptors, descriptors_null, commitments_null,
                 offset_generators>>

\* sxt_compute_pedersen_commitments(commitments, num_sequences, descriptors, offset)
ComputePedersenCommitments ==
  /\ cm_pc = "idle"
  /\ IF num_sequences = 0
       THEN cm_pc' = "returned" /\ UNCHANGED <<commitments, derived>>
       ELSE \E outcome \in CommitOutcomes(descriptors, descriptors_null, commitments_null) :
              /\ cm_pc' = outcome
              /\ IF outcome = "abort"
                   THEN UNCHANGED <<commitments, derived>>
                   ELSE /\ commitments' =
                             PedersenCommitments(descriptors,
                               CommitGenerators(offset_generators, MaxRows(descriptors)))
                        /\ derived' = MaxRows(descriptors)
  /\ UNCHANGED <<commit_args, gen_call_vars, cg_pc, commitments_g, gen_vars, ipa_vars>>

\* sxt_get_generators(generators, offset_generators, max_num_rows)
FetchGenerators ==
  /\ gg_pc = "idle" /\ cm_pc # "idle"
  /\ generators' = GetGenerators(offset_generators, MaxRows(descriptors))
  /\ gg_pc' = "returned"
  /\ UNCHANGED <<commit_args, cm_pc, commitments, derived, cg_pc, commitments_g,
                 gen_vars, ipa_vars>>

\* sxt_compute_pedersen_commitments_with_generators(commitments, num_sequences,
\*                                                  descriptors, generators)
ComputePedersenCommitmentsWithGenerators ==
  /\ cg_pc = "idle" /\ gg_pc = "returned"
  /\ IF num_sequences = 0
       THEN cg_pc' = "returned" /\ UNCHANGED commitments_g
       ELSE \E outcome \in CommitOutcomes(descriptors, descriptors_null, commitments_null) :
              /\ cg_pc' = outcome
              /\ IF outcome = "abort"
                   THEN UNCHANGED commitments_g
                   ELSE commitments_g' = PedersenCommitments(descriptors, generators)
  /\ UNCHANGED <<commit_args, cm_pc, commitments, derived, gen_call_vars,
                 gen_vars, ipa_vars>>

\* ---- the inputs of the commitment calls
ElementBytes(nbytes, pat) ==
  [i \in 1 .. nbytes |-> IF pat = 0 THEN (IF i = 1 THEN 5 ELSE 0)
                         ELSE (IF i = 1 THEN 131 ELSE 255)]

\* a data buffer of len elements whose byte patterns alternate, starting with pat
SeqData(nbytes, len, pat) ==
  [idx \in 1 .. (len * nbytes) |->
     ElementBytes(nbytes, (pat + (idx - 1) \div nbytes) % 2)[((idx - 1) % nbytes) + 1]]

MakeDescriptor(nbytes, signed, len, pat) ==
  [element_nbytes |-> nbytes, n |-> len, data |-> SeqData(nbytes, len, pat),
   data_null |-> FALSE, is_signed |-> signed]

ValidTypes == {<<1, 1>>, <<2, 0>>, <<32, 0>>}
BadTypes == {<<0, 0>>, <<3, 0>>, <<33, 0>>, <<32, 1>>}

ValidDescriptors ==
  {MakeDescriptor(t[1], t[2], len, pat) : t \in ValidTypes, len \in 0 .. MaxSeqLen, pat \in {0, 1}}

BadDescriptors ==
  {MakeDescriptor(t[1], t[2], len, 1) : t \in BadTypes, len \in 1 .. MaxSeqLen}
  \cup {[MakeDescriptor(t[1], t[2], len, 1) EXCEPT !.data_null = TRUE, !.data = <<>>] :
          t \in ValidTypes, len \in 1 .. MaxSeqLen}

Filler == MakeDescriptor(1, 1, 1, 0)
EmptyNullData == [MakeDescriptor(2, 0, 0, 0) EXCEPT !.data_null = TRUE]

\* lists of valid descriptors
ValidLists == UNION {[1 .. m -> ValidDescriptors] : m \in 0 .. MaxSeqs}

\* lists with one descriptor that breaks a rule, or with an empty sequence whose
\* data pointer is null, among valid ones
SpecialLists ==
  {[i \in 1 .. m |-> IF i = q THEN d ELSE Filler] :
     m \in 1 .. MaxSeqs, q \in 1 .. MaxSeqs, d \in BadDescriptors \cup {EmptyNullData}}

InitCommit ==
  /\ \/ /\ descriptors \in ValidLists
        /\ descriptors_null = FALSE /\ commitments_null = FALSE
     \/ /\ descriptors \in SpecialLists
        /\ descriptors_null = FALSE /\ commitments_null = FALSE
     \/ /\ descriptors \in {[i \in 1 .. m |-> Filler] : m \in 0 .. MaxSeqs}
        /\ descriptors_null \in BOOLEAN
        /\ commitments_null = ~descriptors_null
  /\ num_sequences = Len(descriptors)
  /\ offset_generators \in 0 .. MaxOffset
  /\ cm_pc = "idle" /\ gg_pc = "idle" /\ cg_pc = "idle"
  /\ commitments = [i \in 1 .. num_sequences |-> -1]
  /\ commitments_g = [i \in 1 .. num_sequences |-> -1]
  /\ derived = 0
  /\ generators = <<>>

IdleCommit ==
  /\ num_sequences = 0 /\ descriptors = <<>>
  /\ descriptors_null = FALSE /\ commitments_null = FALSE
  /\ offset_generators = 0
  /\ cm_pc = "idle" /\ gg_pc = "idle" /\ cg_pc = "idle"
  /\ commitments = <<>> /\ commitments_g = <<>> /\ derived = 0 /\ generators = <<>>

NextCommit ==
  \/ ComputePedersenCommitments
  \/ FetchGenerators
  \/ ComputePedersenCommitmentsWithGenerators

\* ============================================== generators and one_commit
\* acc + g[from] + ... + g[to - 1]
RECURSIVE AddGenerators(_, _, _)
AddGenerators(acc, from, to) ==
  IF from >= to THEN acc
  ELSE AddGenerators(PAdd(acc, generate_random_ristretto(from)), from + 1, to)

\* the partial sums kept for 0 .. num generators: entry i + 1 is g[0] + ... + g[i - 1]
Precompute(num) == [i \in 1 .. (num + 1) |-> AddGenerators(ristretto_identity, 0, i - 1)]

\* faulty variant: extending the kept sums skips the first generator beyond them
OneCommit_skip(cache, nn) ==
  IF nn < Len(cache) THEN cache[nn + 1]
  ELSE AddGenerators(cache[Len(cache)], Len(cache), nn)
\* one_commit[0] = identity if n = 0, else g[0] + g[1] + ... + g[n - 1]; a kept partial
\* sum is used when there is one, and extended when n is beyond the kept ones
OneCommit(cache, nn) ==
  IF nn < Len(cache) THEN cache[nn + 1]
  ELSE AddGenerators(cache[Len(cache)], Len(cache) - 1, nn)

\* int sxt_get_one_commit(one_commit, n)
GetOneCommit ==
  /\ \E nn \in 0 .. NumGen, isnull \in BOOLEAN :
       /\ oc_n' = nn
       /\ IF isnull
            THEN oc_ret' = 1 /\ one_commit' = <<>>
            ELSE oc_ret' = 0 /\ one_commit' = OneCommit(precomputed, nn)
  /\ UNCHANGED <<num_precomputed_generators, precomputed, gen_args, gen_ret, gen_out,
                 commit_vars, ipa_vars>>

\* int sxt_get_generators(generators, offset_generators, num_generators)
GetGeneratorsCall ==
  /\ \E off \in 0 .. MaxOffset, num \in 0 .. (NumGen - MaxOffset), isnull \in BOOLEAN :
       /\ gen_args' = <<off, num>>
       /\ IF num > 0 /\ isnull
            THEN gen_ret' = 1 /\ gen_out' = <<>>
            ELSE gen_ret' = 0 /\ gen_out' = GetGenerators(off, num)
  /\ UNCHANGED <<num_precomputed_generators, precomputed, oc_n, oc_ret, one_commit,
                 commit_vars, ipa_vars>>

InitGen ==
  /\ num_precomputed_generators \in 0 .. MaxPrecomputed
  /\ precomputed = Precompute(num_precomputed_generators)
  /\ oc_n = -1 /\ oc_ret = -1 /\ one_commit = <<>>
  /\ gen_args = <<0, 0>> /\ gen_ret = -1 /\ gen_out = <<>>

IdleGen ==
  /\ num_precomputed_generators = 0
  /\ precomputed = Precompute(0)
  /\ oc_n = -1 /\ oc_ret = -1 /\ one_commit = <<>>
  /\ gen_args = <<0, 0>> /\ gen_ret = -1 /\ gen_out = <<>>

NextGen ==
  \/ GetOneCommit
  \/ GetGeneratorsCall

\* ======================================================= specifications
vars == <<commit_vars, gen_vars, ipa_vars>>

\* a proof session: one prove call, then one verify call
Init == InitIPA /\ IdleCommit /\ IdleGen
Next == NextIPA
Spec == Init /\ [][Next]_vars

\* the two commitment entry points called on the same descriptors
StartCommit == InitCommit /\ IdleGen /\ IdleIPA
SpecCommit == StartCommit /\ [][NextCommit]_vars

\* calls of sxt_get_one_commit and sxt_get_generators after sxt_init
StartGen == InitGen /\ IdleCommit /\ IdleIPA
SpecGen == StartGen /\ [][NextGen]_vars

\* ============================================== properties of the IPA calls
\* a vector extended with zeros to length np
ZeroExtend(x, np) == [i \in 1 .. np |-> IF i <= Len(x) THEN x[i] ELSE 0]

\* k is the least number with 2^k >= len
IsCeilLog2(k, len) == Pow(2, k) >= len /\ (k = 0 \/ Pow(2, k - 1) < len)

IsPowerOfTwo(len) == \E k \in 0 .. len : Pow(2, k) = len

\* the verifier was handed exactly what the prover wrote
HonestProof == v_ap = ap_value /\ v_l = l_vector /\ v_r = r_vector

\* the prover's round i (1 = first) wrote index RoundIndex(i) of l_vector and r_vector
RoundIndex(i) == Len(l_vector) - i + 1

C3_RoundCount ==
  /\ p_pc \in {"round", "done"} =>
       /\ j >= -1
       /\ IsCeilLog2(Len(u_hist) + j + 1, n)
       /\ Len(l_vector) = Len(u_hist) + j + 1 /\ Len(r_vector) = Len(l_vector)
       /\ p_n = Pow(2, j + 1)
       /\ Len(a) = p_n /\ Len(b) = p_n /\ Len(G) = p_n
       /\ \A i \in 1 .. Len(l_vector) :
            /\ (l_vector[i] # -1) <=> (i > j + 1)
            /\ (r_vector[i] # -1) <=> (i > j + 1)
  /\ p_pc = "done" =>
       /\ j = -1
       /\ IsCeilLog2(Len(u_hist), n)
       /\ Len(a) = 1 /\ Len(b) = 1 /\ Len(G) = 1
       /\ ap_value = a[1]
       /\ n = 1 => (u_hist = <<>> /\ l_vector = <<>> /\ r_vector = <<>>
                     /\ ap_value = a_vector[1])
  /\ p_pc \in {"idle", "abort"} => (u_hist = <<>> /\ ap_value = -1)

\* the prover returned for n = 3 after two rounds
C3_Witness ==
  /\ p_pc = "done" /\ n = 3 /\ Len(u_hist) = 2 /\ Len(a) = 1
  /\ l_vector[1] # -1 /\ l_vector[2] # -1 /\ ap_value # 0

\* the operations round i applied, given the L and R of that round
OpsOfRound(ops, i) == <<ops[3 * i - 2], ops[3 * i - 1], ops[3 * i]>>
ExpectedOps(Lc, Rc) == << <<"append", "L", Lc>>, <<"append", "R", Rc>>, <<"challenge", "x">> >>

\* C4 (transcript protocol agreement): the operations the prover and the verifier
\* applied to their transcripts are, per round done and in this order,
\* append("L", L_j), append("R", R_j), challenge("x"), rounds going from j = k-1
\* down; and a verifier handed the prover's l_vector and r_vector derives the
\* prover's challenges and, once all rounds are done, holds the prover's final
\* transcript state.
C4_TranscriptAgreement ==
  /\ Len(p_ops) = 3 * Len(u_hist)
  /\ \A i \in 1 .. Len(u_hist) :
       OpsOfRound(p_ops, i) = ExpectedOps(l_vector[RoundIndex(i)], r_vector[RoundIndex(i)])
  /\ Len(v_ops) = 3 * Len(v_u_hist)
  /\ \A i \in 1 .. Len(v_u_hist) :
       OpsOfRound(v_ops, i) = ExpectedOps(v_l[RoundIndex(i)], v_r[RoundIndex(i)])
  /\ (v_pc \in {"round", "done"} /\ v_l = l_vector /\ v_r = r_vector) =>
       /\ \A i \in 1 .. Len(v_u_hist) : v_u_hist[i] = u_hist[i]
       /\ v_j < 0 => (v_transcript = transcript /\ v_u_hist = u_hist)

\* prover and verifier both did two rounds on the same L and R
C4_Witness ==
  /\ v_pc = "done" /\ v_l = l_vector /\ v_r = r_vector
  /\ Len(v_u_hist) = 2 /\ Len(p_ops) = 6 /\ Len(v_ops) = 6
  /\ v_transcript = transcript /\ v_transcript # t0

\* C7 (rejection is a result, a violated precondition an abort): a verify call
\* with n >= 1 and no null pointer never aborts and ends with result 0 or 1,
\* whatever proof it was handed; a prove or verify call with n = 0 or a null
\* required pointer aborts, leaving no proof and no result.
C7_RejectVersusAbort ==
  /\ (v_pc # "idle" /\ n >= 1 /\ ~v_null) =>
       /\ v_pc \in {"round", "done"}
       /\ v_pc = "done" <=> result \in {0, 1}
  /\ (v_pc # "idle" /\ (n = 0 \/ v_null)) => (v_pc = "abort" /\ result = -1)
  /\ (p_pc # "idle" /\ (n = 0 \/ null_arg)) =>
       (p_pc = "abort" /\ ap_value = -1 /\ l_vector = <<>> /\ r_vector = <<>>)
  /\ (p_pc # "idle" /\ n >= 1 /\ ~null_arg) => p_pc \in {"round", "done"}

\* a proof with a changed L_j went through both rounds and was rejected with result 0
C7_Witness ==
  /\ v_pc = "done" /\ n >= 1 /\ ~v_null /\ Len(v_l) = 2
  /\ v_l # l_vector /\ v_r = r_vector /\ v_ap = ap_value
  /\ result = 0

\* the run of the prover on the zero-extended inputs of length np
PaddedRun ==
  LET np == Pow(2, Len(l_vector))
  IN  ProveRounds(ProveEntry(np, generators_offset, ZeroExtend(a_vector, np),
                             ZeroExtend(b_vector, np), t0),
                  PointQ(generators_offset, np))

\* C9 (zero padding): for n not a power of two, the prover's outputs and final
\* transcript on (a, b, n) are those of the prover run on a and b extended with
\* zeros to np = 2^ceil(log2(n)); G has np elements on entry and Q = generator(offset + np).
C9_ZeroPadding ==
  /\ (p_pc = "done" /\ ~IsPowerOfTwo(n)) =>
       /\ LET run == PaddedRun
          IN  /\ l_vector = run.l
              /\ r_vector = run.r
              /\ ap_value = run.a[1]
              /\ transcript = run.t
       /\ PointQ(generators_offset, n)
            = generate_random_ristretto(generators_offset + Pow(2, Len(l_vector)))
  /\ (p_pc = "round" /\ u_hist = <<>> /\ ~IsPowerOfTwo(n)) =>
       /\ Len(G) = Pow(2, Len(l_vector))
       /\ Len(G) > n
       /\ Len(ProveEntry(Len(G), generators_offset, ZeroExtend(a_vector, Len(G)),
                         ZeroExtend(b_vector, Len(G)), t0).G) = Len(G)
       /\ G = GetGenerators(generators_offset, Len(G))

\* the prover returned for n = 3 with a nonzero a[2], so the padded half mattered
C9_Witness ==
  /\ p_pc = "done" /\ n = 3 /\ a_vector[3] # 0 /\ a_vector[2] # 0
  /\ Len(l_vector) = 2 /\ ap_value = PaddedRun.a[1]

\* sum over the rounds done of u_j^2 * L_j + u_j^-2 * R_j
RECURSIVE RoundTerms(_)
RoundTerms(i) ==
  IF i = 0 THEN ristretto_identity
  ELSE PAdd(RoundTerms(i - 1),
            PAdd(PMul(FMul(u_hist[i], u_hist[i]), Decompress(l_vector[RoundIndex(i)])),
                 PMul(FMul(FInv(u_hist[i]), FInv(u_hist[i])),
                      Decompress(r_vector[RoundIndex(i)]))))

\* <x, Gv> + <x, y> * Q
Statement(x, y, Gv, Q) == PAdd(MSM(x, Gv), PMul(InnerProduct(x, y), Q))

\* C10 (folding invariant): after each completed prover round,
\* <a, G> + <a, b> * Q = <a0, G0> + <a0, b0> * Q + sum of (u_j^2 L_j + u_j^-2 R_j)
\* over the rounds done, a0, b0 being the zero-padded inputs and G0 the np
\* generators; and the G a verifier holds after the same rounds on the same L and R
\* is the prover's G.
C10_FoldingInvariant ==
  /\ p_pc \in {"round", "done"} =>
       /\ \A i \in 1 .. Len(u_hist) : u_hist[i] # 0
       /\ LET np == Pow(2, Len(l_vector))
              Q == generate_random_ristretto(generators_offset + np)
          IN  Statement(a, b, G, Q)
                = PAdd(Statement(ZeroExtend(a_vector, np), ZeroExtend(b_vector, np),
                                 GetGenerators(generators_offset, np), Q),
                       RoundTerms(Len(u_hist)))
  /\ (v_pc \in {"round", "done"} /\ v_l = l_vector /\ v_r = r_vector) =>
       /\ v_G_hist = SubSeq(G_hist, 1, Len(v_G_hist))
       /\ v_G = IF v_G_hist = <<>> THEN GetGenerators(generators_offset, Len(v_G))
                ELSE G_hist[Len(v_G_hist)]

\* two rounds were folded with challenges that are not their own inverses
C10_Witness ==
  /\ p_pc = "done" /\ Len(u_hist) = 2 /\ v_pc = "done" /\ v_l = l_vector /\ v_r = r_vector
  /\ FMul(u_hist[1], u_hist[1]) # 1 /\ a_vector[1] # 0 /\ a_vector[3] # 0
  /\ Len(v_G_hist) = 2

\* ======================================= properties of the commitment calls
\* a descriptor within every rule of sxt_sequence_descriptor
ValidDescriptor(d) ==
  /\ d.element_nbytes \in {1, 2, 4, 8, 16, 32}
  /\ d.is_signed # 0 => d.element_nbytes <= 16
  /\ d.n > 0 => ~d.data_null

\* the commitment of one sequence: sum over j of generator(offset + j) * a_j
CommitmentAlone(d, offset) ==
  Compress(MSM(DecodeSequence(d),
               [row \in 1 .. d.n |-> generate_random_ristretto(offset + row - 1)]))

Unwritten(out) == \A i \in 1 .. Len(out) : out[i] = -1

\* the descriptor or pointer faults the claim names
ClaimedFault ==
  \/ descriptors_null
  \/ commitments_null
  \/ \E i \in 1 .. num_sequences : ~ValidDescriptor(descriptors[i])

DocumentedFault ==
  \/ descriptors_null
  \/ commitments_null
  \/ \E i \in 1 .. num_sequences :
       \/ descriptors[i].element_nbytes = 0
       \/ descriptors[i].element_nbytes > 32
       \/ descriptors[i].n > 0 /\ descriptors[i].data_null

RECURSIVE PointSum(_)
PointSum(points) ==
  IF points = <<>> THEN ristretto_identity ELSE PAdd(Head(points), PointSum(Tail(points)))

\* C6 (prefix sum): a call of sxt_get_one_commit(n) that returned 0 wrote the sum of
\* the n generators sxt_get_generators yields at offset 0, the identity for n = 0,
\* and the point for n + 1 is that point plus generator(n), however many partial sums
\* are kept.
C6_PrefixSum ==
  (oc_n >= 0 /\ one_commit # <<>>) =>
     /\ oc_ret = 0
     /\ one_commit = PointSum(GetGenerators(0, oc_n))
     /\ oc_n = 0 => one_commit = ristretto_identity
     /\ oc_n < NumGen =>
          OneCommit(precomputed, oc_n + 1)
            = PAdd(one_commit, generate_random_ristretto(oc_n))
     /\ (gen_ret = 0 /\ gen_args = <<0, oc_n>>) => one_commit = PointSum(gen_out)

\* one_commit(n) was asked beyond the kept partial sums, with the same generators fetched
C6_Witness ==
  /\ oc_ret = 0 /\ oc_n = num_precomputed_generators + 2 /\ num_precomputed_generators > 0
  /\ gen_ret = 0 /\ gen_args = <<0, oc_n>> /\ one_commit = PointSum(gen_out)
  /\ one_commit # ristretto_identity
====
